---- MODULE Spec2Model ----
(***************************************************************************)
(* A model of photoExport.py: the export-reconciliation pipeline of an     *)
(* osxphotos based exporter.  File names are sequences of one-character    *)
(* strings, so that the regular expressions, os.path.splitext and          *)
(* str.replace of the source are computed character by character.          *)
(***************************************************************************)
EXTENDS Integers, Sequences, FiniteSets, TLC

(***************************************************************************)
(* Characters and string helpers (Python str methods used by the source).  *)
(***************************************************************************)
Digits == {"0", "1", "2", "3", "4", "5", "6", "7", "8", "9"}

\* str.lower() on one character, for the letters that occur in the model.
LowerChar(c) ==
    CASE c = "I" -> "i" [] c = "M" -> "m" [] c = "G" -> "g"
      [] c = "J" -> "j" [] c = "P" -> "p" [] c = "H" -> "h"
      [] c = "E" -> "e" [] c = "C" -> "c" [] c = "O" -> "o"
      [] c = "V" -> "v" [] c = "N" -> "n"
      [] OTHER -> c

Lower(s) == [i \in 1..Len(s) |-> LowerChar(s[i])]

EndsWith(s, t) ==
    /\ Len(s) >= Len(t)
    /\ SubSeq(s, Len(s) - Len(t) + 1, Len(s)) = t

Min(S) == CHOOSE x \in S : \A y \in S : x <= y
Max(S) == CHOOSE x \in S : \A y \in S : x >= y

\* Literals of the source, spelled as character sequences.
DOT_JPG  == <<".", "j", "p", "g">>
DOT_HEIC == <<".", "h", "e", "i", "c">>
IMG_     == <<"I", "M", "G", "_">>
HEVC_MOV == <<"_", "H", "E", "V", "C", ".", "M", "O", "V">>
EDITED   == <<"-", "e", "d", "i", "t", "e", "d">>
ONE_DOT  == <<" ", "(", "1", ")", ".">>

\* os.path.splitext on a file name (no directory separator in it): the
\* extension starts at the last dot, unless only dots precede that dot.
SplitExt(p) ==
    LET dots == {i \in 1..Len(p) : p[i] = "."}
    IN  IF dots = {} THEN <<p, <<>>>>
        ELSE LET dotIndex == Max(dots)
             IN  IF \E j \in 1..(dotIndex - 1) : p[j] # "."
                 THEN <<SubSeq(p, 1, dotIndex - 1), SubSeq(p, dotIndex, Len(p))>>
                 ELSE <<p, <<>>>>

\* re.match(r'^IMG_\d{4}\.(jpg|heic)$', filename, re.IGNORECASE)
MatchCanonical(filename) ==
    LET l == Lower(filename)
    IN  /\ Len(l) >= 9
        /\ SubSeq(l, 1, 4) = Lower(IMG_)
        /\ \A i \in 5..8 : l[i] \in Digits
        /\ SubSeq(l, 9, Len(l)) \in {DOT_JPG, DOT_HEIC}

\* The start positions of the matches of r'IMG_\d{4}' (case-sensitive).
ImgMatches(filename) ==
    {i \in 1..(Len(filename) - 7) :
        /\ SubSeq(filename, i, i + 3) = IMG_
        /\ \A k \in (i + 4)..(i + 7) : filename[k] \in Digits}

\* (mutant) the extension test of line 54 without .lower()
extract_img_pattern_cs(filename) ==
    IF ~(EndsWith(filename, DOT_JPG) \/ EndsWith(filename, DOT_HEIC))
    THEN filename
    ELSE IF MatchCanonical(filename)
    THEN filename
    ELSE IF ImgMatches(filename) # {}
    THEN LET i == Min(ImgMatches(filename))
         IN  SubSeq(filename, i, i + 7) \o SplitExt(filename)[2]
    ELSE filename

\* extract_img_pattern(filename)
extract_img_pattern(filename) ==
    IF ~(EndsWith(Lower(filename), DOT_JPG) \/ EndsWith(Lower(filename), DOT_HEIC))
    THEN filename
    ELSE IF MatchCanonical(filename)
    THEN filename
    ELSE IF ImgMatches(filename) # {}
    THEN LET i == Min(ImgMatches(filename))
         IN  SubSeq(filename, i, i + 7) \o SplitExt(filename)[2]
    ELSE filename

\* get_live_photo_name(photo_name)
get_live_photo_name(photo_name) == SplitExt(photo_name)[1] \o HEVC_MOV

\* f"{edited_filename_without_ext}-edited{file_extension}"
edited_filename(original_filename) ==
    SplitExt(original_filename)[1] \o EDITED \o SplitExt(original_filename)[2]

\* str.replace(".", " (1)."): every dot of the name is replaced.
RECURSIVE ReplaceDots(_)
ReplaceDots(s) ==
    IF s = <<>> THEN <<>>
    ELSE (IF Head(s) = "." THEN ONE_DOT ELSE <<Head(s)>>) \o ReplaceDots(Tail(s))

(***************************************************************************)
(* File contents.  A content value stands for one byte string: id names    *)
(* the bytes, fmt the container format the bytes are in and px the picture *)
(* they encode.  Two files are byte-identical iff their contents are equal.*)
(***************************************************************************)
Content(n, f, p) == [id |-> n, fmt |-> f, px |-> p]

\* A file as the comparator sees it: the name it is stored under and its bytes.
File(n, b) == [name |-> n, bytes |-> b]

\* file_hash(filepath): the SHA-256 digest of the bytes (collision-free).
file_hash(f) == <<"sha256", f.bytes.id>>

SUPPORTED_IMAGE_FORMATS ==
    { <<".", "j", "p", "g">>, <<".", "j", "p", "e", "g">>, <<".", "p", "n", "g">>,
      <<".", "b", "m", "p">>, <<".", "t", "i", "f", "f">>, <<".", "g", "i", "f">>,
      <<".", "h", "e", "i", "c">>, <<".", "a", "v", "i", "f">> }

\* Formats PIL's Image.open identifies; pyheif reads HEIF containers only.
PilFormats == {"jpeg", "png"}

\* The result of a decoder: an image, or the exception it raised.
Image(px)    == [error |-> "none", image |-> px]
Raised(name) == [error |-> name, image |-> 0]

\* Image.open(path) followed by the load that imagehash.phash forces:
\* an image, UnidentifiedImageError, or another exception (truncated data).
ImageOpen(f) ==
    IF f.bytes.fmt \in PilFormats THEN Image(f.bytes.px)
    ELSE IF f.bytes.fmt = "truncated" THEN Raised("Exception")
    ELSE Raised("UnidentifiedImageError")

\* heic_to_pil(image_path): pyheif.read raises on anything but HEIF data.
heic_to_pil(f) ==
    IF f.bytes.fmt = "heic" THEN Image(f.bytes.px) ELSE Raised("Exception")

\* imagehash.phash: a fingerprint of the picture; near-identical pictures
\* (px 2k-1 and 2k) share a fingerprint.
phash(img) == (img.image + 1) \div 2

IsError(x) == x.error # "none"

\* The decoder lines 133-141 pick for a file, by its extension.
DecodeByExt(f) ==
    IF Lower(SplitExt(f.name)[2]) = DOT_HEIC THEN heic_to_pil(f) ELSE ImageOpen(f)

\* (mutant) an except clause that gives up and reports a mismatch
OnDecodeErrorFalse(photo_file, existing_file) == FALSE

\* What the except clauses of lines 148-154 return: both fall back to the
\* comparison of the content hashes.
OnDecodeError(photo_file, existing_file) ==
    file_hash(photo_file) = file_hash(existing_file)

\* file_hashes_match(photo_path, existing_path): TRUE or FALSE ("raise" would
\* be an exception leaving the function; the source catches every one).
file_hashes_match(photo_file, existing_file) ==
    LET photo_ext    == Lower(SplitExt(photo_file.name)[2])
        existing_ext == Lower(SplitExt(existing_file.name)[2])
    IN  IF photo_ext \notin SUPPORTED_IMAGE_FORMATS
           \/ existing_ext \notin SUPPORTED_IMAGE_FORMATS
        THEN file_hash(photo_file) = file_hash(existing_file)
        ELSE LET photo_image == DecodeByExt(photo_file)
             IN  IF IsError(photo_image)
                 THEN OnDecodeError(photo_file, existing_file)
                 ELSE LET existing_image == DecodeByExt(existing_file)
                      IN  IF IsError(existing_image)
                          THEN OnDecodeError(photo_file, existing_file)
                          ELSE phash(photo_image) = phash(existing_image)

(***************************************************************************)
(* The pipeline state.                                                     *)
(***************************************************************************)
VARIABLES
    photos,        \* photos_to_process: the filtered library, in enumeration order
    fs,            \* the destination tree: path -> [bytes, mtime]
    report,        \* the report dictionary (lines 35-41)
    failed_files,  \* the failed_files list (line 42)
    run,           \* 1: the first run of the process, 2: a second run
    idx,           \* position of export_photos' for loop (0: before the first photo)
    pc,            \* "loop" | "call" | "sync" | "report" | "aborted"
    variant,       \* the variant the current call is for
    path,          \* the local variable path of export_photo_variant
    call,          \* bookkeeping of the current (or last) call of export_photo_variant
    exports,       \* log of the invocations of photo.export
    calls,         \* log of the finished calls of export_photo_variant
    firstReport,   \* the report the first run ended with
    fnOp, fnArg, fnRes   \* the pure functions: last operation, its input, its result

vars == <<photos, fs, report, failed_files, run, idx, pc, variant, path,
          call, exports, calls, firstReport, fnOp, fnArg, fnRes>>

pipelineVars == <<photos, fs, report, failed_files, run, idx, pc, variant, path,
                  call, exports, calls, firstReport>>

fnVars == <<fnOp, fnArg, fnRes>>

(***************************************************************************)
(* Bounds and input sets.                                                  *)
(***************************************************************************)
MaxPhotos == 2      \* photos in the library
MaxPre    == 1      \* files in the destination tree before the first run

\* the retry count of range(5), line 191
Attempts == 5

\* original_filename values: a name that canonicalizes to IMG_0001.jpg and
\* a name with two dots.  Two photos of one name resolve to one target.
FileNames ==
    { <<"c", "I", "M", "G", "_", "0", "0", "0", "1", ".", "j", "p", "g">>,
      <<"a", ".", "b", ".", "p", "n", "g">> }

\* Source pictures: two different pictures.
PhotoBytes == { Content(1, "jpeg", 1), Content(3, "jpeg", 3) }

\* The bytes of the edited rendering and of the live-motion clip of a photo.
EditedBytes(b) == Content(b.id + 10, "jpeg", b.px + 10)
LiveBytes(b)   == Content(b.id + 20, "mov", 0)

\* What was in the destination tree before the first run.
PreBytes == { Content(0, "jpeg", 5) }

\* The capture date of the i-th photo: photos 1 and 2 fall in one month.
Date(i) == [ym |-> (i + 1) \div 2, day |-> i]

\* datetime.timestamp()
Timestamp(date) == date.ym * 100 + date.day

\* mtime of a file that export wrote and nobody has set since.
WrittenNow == 0

\* A photo of the library (osxphotos.PhotoInfo, the attributes the source reads).
Photo(i, name, b, adj, live) ==
    [ original_filename |-> name,
      date              |-> Date(i),
      path              |-> File(<<"s">> \o Lower(SplitExt(name)[2]), b),
      path_edited       |-> File(<<"s", ".", "j", "p", "e", "g">>, EditedBytes(b)),
      hasadjustments    |-> adj,
      live_photo        |-> live ]

RECURSIVE Libraries(_)
Libraries(n) ==
    IF n = 0 THEN { <<>> }
    ELSE LET shorter == Libraries(n - 1)
         IN  shorter \cup
             { Append(l, Photo(Len(l) + 1, name, b, adj, live)) :
                 l \in {x \in shorter : Len(x) = n - 1},
                 name \in FileNames, b \in PhotoBytes,
                 adj \in BOOLEAN, live \in BOOLEAN }

(***************************************************************************)
(* Destination paths and the export primitive.                             *)
(***************************************************************************)
\* os.path.join(year_month_path, filename)
Path(dir, name) == [dir |-> dir, name |-> name]

original_path(photo) ==
    Path(photo.date.ym, extract_img_pattern(photo.original_filename))

edited_path(photo) ==
    Path(photo.date.ym, edited_filename(extract_img_pattern(photo.original_filename)))

live_photo_path(photo) ==
    Path(photo.date.ym, get_live_photo_name(extract_img_pattern(photo.original_filename)))

VariantPath(photo, v) ==
    IF v = "original" THEN original_path(photo)
    ELSE IF v = "edited" THEN edited_path(photo)
    ELSE live_photo_path(photo)

\* line 167: the path the source takes for the collision-suffixed sibling
duplicate_path(p) == Path(p.dir, ReplaceDots(p.name))

\* The n-th collision name the export primitive uses: "<stem> (n)<ext>".
CounterChar(n) == <<"1", "2", "3", "4", "5", "6", "7", "8", "9">>[n]

IncrementName(name, n) ==
    SplitExt(name)[1] \o <<" ", "(", CounterChar(n), ")">> \o SplitExt(name)[2]

\* Where photo.export writes: the target, or its first free collision name
\* when the target exists at call time.
ExportTarget(tree, p) ==
    IF p \notin DOMAIN tree THEN p
    ELSE LET free == {n \in 1..9 : Path(p.dir, IncrementName(p.name, n)) \notin DOMAIN tree}
         IN  Path(p.dir, IncrementName(p.name, Min(free)))

\* The bytes photo.export writes for a variant.
ExportedBytes(photo, v) ==
    IF v = "edited" THEN photo.path_edited.bytes
    ELSE IF v = "live" THEN LiveBytes(photo.path.bytes)
    ELSE photo.path.bytes

WriteFile(tree, p, b) ==
    [q \in DOMAIN tree \cup {p} |->
        IF q = p THEN [bytes |-> b, mtime |-> WrittenNow] ELSE tree[q]]

\* (mutant) os.utime(file_path, None): the current time instead of the date
set_file_timestamp_now(tree, p, date) ==
    [tree EXCEPT ![p].mtime = WrittenNow]

\* set_file_timestamp(file_path, timestamp) on a file that is there
set_file_timestamp(tree, p, date) ==
    [tree EXCEPT ![p].mtime = Timestamp(date)]

FileAt(tree, p) == File(p.name, tree[p].bytes)

\* lines 200, 204, 230, 234
FailedEntry(p, date) == [path |-> p, date |-> date, timestamp |-> Timestamp(date)]

\* (mutant) the report is built anew when a variant is counted
CountExportedResets(rep, v) ==
    [ originals_exported   |-> rep.originals_exported + (IF v \notin {"edited", "live"} THEN 1 ELSE 0),
      edits_exported       |-> rep.edits_exported + (IF v = "edited" THEN 1 ELSE 0),
      live_photos_exported |-> rep.live_photos_exported + (IF v = "live" THEN 1 ELSE 0),
      duplicates_skipped   |-> 0,
      duplicates_created   |-> 0 ]

\* lines 206-212 and 239-245
CountExported(rep, v) ==
    IF v = "edited" THEN [rep EXCEPT !.edits_exported = @ + 1]
    ELSE IF v = "live" THEN [rep EXCEPT !.live_photos_exported = @ + 1]
    ELSE [rep EXCEPT !.originals_exported = @ + 1]

\* lines 177 and 219
CountSkipped(rep) == [rep EXCEPT !.duplicates_skipped = @ + 1]

\* line 185
CountCreated(rep) == [rep EXCEPT !.duplicates_created = @ + 1]

ZeroReport ==
    [ originals_exported |-> 0, edits_exported |-> 0, live_photos_exported |-> 0,
      duplicates_skipped |-> 0, duplicates_created |-> 0 ]

\* The destination trees the first run may find.
PreNames == {extract_img_pattern(n) : n \in FileNames}

PrePaths == {Path(Date(1).ym, n) : n \in PreNames}

InitialTrees ==
    UNION { [S -> {[bytes |-> b, mtime |-> WrittenNow] : b \in PreBytes}] :
              S \in {T \in SUBSET PrePaths : Cardinality(T) <= MaxPre} }

(***************************************************************************)
(* export_photos and export_photo_variant.                                 *)
(*                                                                         *)
(* The destination is a network volume (MOUNT_PATH): a file that the       *)
(* export of the current call has just written need not be visible yet to  *)
(* os.path.exists or os.utime, which is what lines 190-199 and 228-230     *)
(* provide for.  Files written by earlier calls are visible.               *)
(***************************************************************************)
NoPath == Path(0, <<>>)

\* The input and the result of a pure function: a path (or a file name, as
\* a path of directory 0), two files, a truth value.
NoFile == File(<<>>, Content(0, "none", 0))
FnIn(p, a, b) == [p |-> p, a |-> a, b |-> b]
FnOut(p, m)   == [p |-> p, match |-> m]
NoArg == FnIn(NoPath, NoFile, NoFile)
NoRes == FnOut(NoPath, FALSE)

NoCall ==
    [ idx |-> 0, variant |-> "none", target |-> NoPath, existed |-> FALSE,
      report0 |-> ZeroReport, exports0 |-> 0, failed0 |-> 0, fs0 |-> <<>>,
      wrote |-> NoPath, output |-> NoPath, seen |-> TRUE, checks |-> 0, misses |-> 0,
      synced |-> FALSE, ret |-> "none", done |-> FALSE ]

Init ==
    /\ photos \in Libraries(MaxPhotos) \ { <<>> }
    /\ fs \in InitialTrees
    /\ report = ZeroReport
    /\ failed_files = <<>>
    /\ run = 1
    /\ idx = 0
    /\ pc = "loop"
    /\ variant = "none"
    /\ path = NoPath
    /\ call = NoCall
    /\ exports = <<>>
    /\ calls = <<>>
    /\ firstReport = ZeroReport
    /\ fnOp = "none" /\ fnArg = NoArg /\ fnRes = NoRes

\* The bookkeeping when a call of export_photo_variant starts: what the call
\* found (the target, whether it existed, the counters, the tree), the file
\* its export wrote, the path its timestamp code works on, whether line 184
\* saw what export wrote, the existence checks of the loop and those that
\* failed.
Begin ==
    [ idx |-> idx, variant |-> variant, target |-> path, existed |-> path \in DOMAIN fs,
      report0 |-> report, exports0 |-> Len(exports), failed0 |-> Len(failed_files),
      fs0 |-> fs, wrote |-> NoPath, output |-> path, seen |-> TRUE, checks |-> 0,
      misses |-> 0, synced |-> FALSE, ret |-> "none", done |-> FALSE ]

\* (mutant) export called with the whole path as the file name
ExportCallWholePath(ok) ==
    [ run |-> run, idx |-> idx, variant |-> variant, dir |-> path.dir,
      filename |-> <<"/">> \o path.name, ok |-> ok ]

\* One invocation of photo.export(os.path.dirname(path), filename=os.path.basename(path), ...)
ExportCall(ok) ==
    [ run |-> run, idx |-> idx, variant |-> variant, dir |-> path.dir,
      filename |-> path.name, ok |-> ok ]

\* (mutant) the Edited and Live variants are visited whatever the Original's outcome
NextVariantUngated(photo, v, ret) ==
    IF v = "original"
    THEN IF photo.hasadjustments THEN "edited"
         ELSE IF photo.live_photo THEN "live"
         ELSE "none"
    ELSE IF v = "edited"
    THEN IF photo.live_photo THEN "live" ELSE "none"
    ELSE "none"

\* (mutant) a duplicate Edited variant ends the photo, as a duplicate Original does
NextVariantEditedGates(photo, v, ret) ==
    IF ret THEN "none"
    ELSE IF v = "original"
    THEN IF photo.hasadjustments THEN "edited"
         ELSE IF photo.live_photo THEN "live"
         ELSE "none"
    ELSE IF v = "edited"
    THEN IF photo.live_photo THEN "live" ELSE "none"
    ELSE "none"

\* lines 263-278: the variant export_photos goes on with after a call returned ret.
NextVariant(photo, v, ret) ==
    IF v = "original"
    THEN IF ret THEN "none"
         ELSE IF photo.hasadjustments THEN "edited"
         ELSE IF photo.live_photo THEN "live"
         ELSE "none"
    ELSE IF v = "edited"
    THEN IF photo.live_photo THEN "live" ELSE "none"
    ELSE "none"

\* export_photo_variant returns ret to export_photos.
Return(c, ret) ==
    LET nv == NextVariant(photos[idx], variant, ret)
    IN  /\ call' = [c EXCEPT !.ret = ret, !.done = TRUE]
        /\ calls' = Append(calls, [run |-> run, idx |-> idx, variant |-> variant, ret |-> ret])
        /\ variant' = nv
        /\ pc' = IF nv = "none" THEN "loop" ELSE "call"
        /\ path' = IF nv = "none" THEN NoPath ELSE VariantPath(photos[idx], nv)

\* line 162
photo_path(photo, v) == IF v = "edited" THEN photo.path_edited ELSE photo.path

\* line 160: os.path.exists(path)
TargetExists == path \in DOMAIN fs

\* line 163: file_hashes_match(photo_path, path)
TargetMatches ==
    file_hashes_match(photo_path(photos[idx], variant), FileAt(fs, path))

\* line 170: pre_existing_duplicate
SiblingPreExists == duplicate_path(path) \in DOMAIN fs

\* line 174: file_hashes_match(photo_path, duplicate_path)
SiblingMatches ==
    file_hashes_match(photo_path(photos[idx], variant), FileAt(fs, duplicate_path(path)))

\* lines 255-263: the for loop takes the next photo and calls for its original.
StartPhoto ==
    /\ pc = "loop"
    /\ idx < Len(photos)
    /\ idx' = idx + 1
    /\ variant' = "original"
    /\ path' = original_path(photos[idx + 1])
    /\ pc' = "call"
    /\ call' = NoCall
    /\ UNCHANGED <<photos, fs, report, failed_files, run, exports,
                   calls, firstReport, fnVars>>

\* lines 221-246: the target does not exist: export, one os.utime, count.
\* visible: the volume shows the written file when os.utime runs;
\* err: os.utime fails with an unexpected error.
CallNotExists ==
    /\ pc = "call"
    /\ ~TargetExists
    /\ \E visible \in BOOLEAN, err \in BOOLEAN :
          LET photo   == photos[idx]
              target  == ExportTarget(fs, path)
              written == WriteFile(fs, target, ExportedBytes(photo, variant))
              set     == visible /\ ~err
          IN  /\ ~visible => ~err
              /\ exports' = Append(exports, ExportCall(TRUE))
              /\ fs' = IF set THEN set_file_timestamp(written, path, photo.date) ELSE written
              /\ failed_files' = IF set THEN failed_files
                                 ELSE Append(failed_files, FailedEntry(path, photo.date))
              /\ report' = CountExported(report, variant)
              /\ Return([Begin EXCEPT !.wrote = target, !.synced = set,
                                     !.misses = IF visible THEN 0 ELSE 1], FALSE)
    /\ UNCHANGED <<photos, run, idx, firstReport, fnVars>>

\* The condition under which a call reaches photo.export (lines 172 and 223).
ReachesExport ==
    \/ ~TargetExists
    \/ TargetExists /\ ~TargetMatches /\ ~SiblingPreExists

\* photo.export raises: nothing catches it, the run ends with a traceback.
CallExportRaises ==
    /\ pc = "call"
    /\ ReachesExport
    /\ exports' = Append(exports, ExportCall(FALSE))
    /\ call' = Begin
    /\ pc' = "aborted"
    /\ UNCHANGED <<photos, fs, report, failed_files, run, idx, variant, path,
                   calls, firstReport, fnVars>>

\* lines 160-163, 217-220: the target exists and matches the source.
CallDuplicate ==
    /\ pc = "call"
    /\ TargetExists
    /\ TargetMatches
    /\ report' = CountSkipped(report)
    /\ Return(Begin, TRUE)
    /\ UNCHANGED <<photos, fs, failed_files, run, idx, exports, firstReport, fnVars>>

\* lines 174-178: the sibling was there before and matches the source.
CallSiblingDuplicate ==
    /\ pc = "call"
    /\ TargetExists
    /\ ~TargetMatches
    /\ SiblingPreExists
    /\ SiblingMatches
    /\ report' = CountSkipped(report)
    /\ Return(Begin, TRUE)
    /\ UNCHANGED <<photos, fs, failed_files, run, idx, exports, firstReport, fnVars>>

\* lines 179-184: the sibling was there before and does not match: the branch
\* only logs, and control falls through to the timestamp loop of line 190.
CallSiblingMismatch ==
    /\ pc = "call"
    /\ TargetExists
    /\ ~TargetMatches
    /\ SiblingPreExists
    /\ ~SiblingMatches
    /\ call' = Begin
    /\ pc' = "sync"
    /\ UNCHANGED <<photos, fs, report, failed_files, run, idx, variant, path, exports,
                   calls, firstReport, fnVars>>

\* lines 171-173, 183-188: the sibling was not there: export, then look for
\* the sibling.  seen: the volume already shows the file export wrote.
CallExportCollision ==
    /\ pc = "call"
    /\ TargetExists
    /\ ~TargetMatches
    /\ ~SiblingPreExists
    /\ \E seen \in BOOLEAN :
          LET photo   == photos[idx]
              target  == ExportTarget(fs, path)
              written == WriteFile(fs, target, ExportedBytes(photo, variant))
              created == duplicate_path(path) \in DOMAIN written /\ seen
          IN  /\ duplicate_path(path) \notin DOMAIN written => seen
              /\ exports' = Append(exports, ExportCall(TRUE))
              /\ fs' = written
              /\ report' = IF created THEN CountCreated(report) ELSE report
              /\ path' = IF created THEN duplicate_path(path) ELSE path
              /\ call' = [Begin EXCEPT !.wrote = target, !.output = path', !.seen = seen]
    /\ pc' = "sync"
    /\ UNCHANGED <<photos, failed_files, run, idx, variant, calls, firstReport, fnVars>>

\* An existence check of the loop fails: path is not there, or it is the
\* file this call's export wrote and the volume does not show it yet.
CheckFails == path \notin DOMAIN fs \/ path = call.wrote

\* line 192: an existence check of the loop finds the file
CheckSucceeds == path \in DOMAIN fs

\* lines 191-194, 202-216: an existence check that finds the file; os.utime
\* sets the time or fails with an unexpected error; the variant is counted.
SyncSet ==
    /\ pc = "sync"
    /\ CheckSucceeds
    /\ \E err \in BOOLEAN :
          /\ fs' = IF err THEN fs ELSE set_file_timestamp(fs, path, photos[idx].date)
          /\ failed_files' = IF err
                             THEN Append(failed_files, FailedEntry(path, photos[idx].date))
                             ELSE failed_files
          /\ report' = CountExported(report, variant)
          /\ Return([call EXCEPT !.checks = @ + 1, !.synced = ~err], FALSE)
    /\ UNCHANGED <<photos, run, idx, exports, firstReport, fnVars>>

\* (mutant) a failed existence check exports the variant again before waiting
SyncWaitReexports ==
    /\ pc = "sync"
    /\ CheckFails
    /\ call.checks + 1 < Attempts
    /\ call' = [call EXCEPT !.checks = @ + 1, !.misses = @ + 1]
    /\ exports' = Append(exports, ExportCall(TRUE))
    /\ UNCHANGED <<photos, fs, report, failed_files, run, idx, pc, variant, path,
                   calls, firstReport, fnVars>>

\* lines 192, 195: an existence check that fails, followed by time.sleep(1).
SyncWait ==
    /\ pc = "sync"
    /\ CheckFails
    /\ call.checks + 1 < Attempts
    /\ call' = [call EXCEPT !.checks = @ + 1, !.misses = @ + 1]
    /\ UNCHANGED <<photos, fs, report, failed_files, run, idx, pc, variant, path,
                   exports, calls, firstReport, fnVars>>

\* (mutant) the FileNotFoundError of line 197 is not caught and ends the run
SyncGiveUpRaises ==
    /\ pc = "sync"
    /\ CheckFails
    /\ call.checks + 1 >= Attempts
    /\ call' = [call EXCEPT !.checks = @ + 1, !.misses = @ + 1]
    /\ pc' = "aborted"
    /\ UNCHANGED <<photos, fs, report, failed_files, run, idx, variant, path,
                   exports, calls, firstReport, fnVars>>

\* (mutant) a timestamp failure returns before the variant is counted
SyncGiveUpUncounted ==
    /\ pc = "sync"
    /\ CheckFails
    /\ call.checks + 1 >= Attempts
    /\ failed_files' = Append(failed_files, FailedEntry(path, photos[idx].date))
    /\ Return([call EXCEPT !.checks = @ + 1, !.misses = @ + 1], FALSE)
    /\ UNCHANGED <<photos, fs, report, run, idx, exports, firstReport, fnVars>>

\* lines 195-200, 206-216: the last existence check fails too: the loop's else
\* raises FileNotFoundError, which is recorded; the variant is counted.
SyncGiveUp ==
    /\ pc = "sync"
    /\ CheckFails
    /\ call.checks + 1 >= Attempts
    /\ failed_files' = Append(failed_files, FailedEntry(path, photos[idx].date))
    /\ report' = CountExported(report, variant)
    /\ Return([call EXCEPT !.checks = @ + 1, !.misses = @ + 1], FALSE)
    /\ UNCHANGED <<photos, fs, run, idx, exports, firstReport, fnVars>>

\* lines 280-288: the loop is over, the report is printed.
Report ==
    /\ pc = "loop"
    /\ idx = Len(photos)
    /\ pc' = "report"
    /\ firstReport' = IF run = 1 THEN report ELSE firstReport
    /\ call' = NoCall
    /\ UNCHANGED <<photos, fs, report, failed_files, run, idx, variant, path,
                   exports, calls, fnVars>>

\* The program is run again: a new process, whose globals are those of
\* lines 35-42, over the same library and the tree the first run left.
Rerun ==
    /\ pc = "report"
    /\ run = 1
    /\ run' = 2
    /\ report' = ZeroReport
    /\ failed_files' = <<>>
    /\ idx' = 0
    /\ pc' = "loop"
    /\ UNCHANGED <<photos, fs, variant, path, call, exports, calls, firstReport, fnVars>>

Next ==
    \/ StartPhoto
    \/ CallNotExists
    \/ CallExportRaises
    \/ CallDuplicate
    \/ CallSiblingDuplicate
    \/ CallSiblingMismatch
    \/ CallExportCollision
    \/ SyncSet
    \/ SyncWait
    \/ SyncGiveUp
    \/ Report
    \/ Rerun

Spec == Init /\ [][Next]_vars

(***************************************************************************)
(* The pure functions on their own: extract_img_pattern, the sibling path  *)
(* of line 167 and file_hashes_match, applied to inputs of bounded sets.   *)
(***************************************************************************)
NamePrefixes == { <<>>, <<"2", "0", "2", "4", "_">>, <<"c">>, <<".">> }
NameCores    == { <<>>, IMG_, Lower(IMG_), <<"I", "M", "G">> }
NameDigits   == { <<>>, <<"1", "2", "3">>, <<"5", "6", "7", "8">>,
                  <<"1", "2", "3", "4", "5">> }
NameTails    == { <<>>, <<"_", "e", "x", "t", "r", "a">>, <<".", "b">>,
                  IMG_ \o <<"0", "0", "4", "2">> }
NameExts     == { <<>>, DOT_JPG, <<".", "J", "P", "G">>, DOT_HEIC,
                  <<".", "H", "E", "I", "C">>, <<".", "p", "n", "g">>,
                  <<".", "M", "O", "V">> }

FileNameInputs ==
    { a \o b \o c \o d \o e :
        a \in NamePrefixes, b \in NameCores, c \in NameDigits,
        d \in NameTails, e \in NameExts }

\* Targets the reconciler may be called with.
TargetInputs ==
    { Path(d, n) : d \in 1..2,
                   n \in { x \in FileNameInputs : Len(x) \in 1..9 /\ x[1] # "." }
                         \cup { extract_img_pattern(x) : x \in FileNames }
                         \cup { edited_filename(extract_img_pattern(x)) : x \in FileNames }
                         \cup { get_live_photo_name(extract_img_pattern(x)) : x \in FileNames } }

CompareNames ==
    { <<"s">> \o e : e \in { <<>>, DOT_JPG, DOT_HEIC, <<".", "H", "E", "I", "C">>,
                             <<".", "p", "n", "g">>, <<".", "M", "O", "V">> } }

CompareBytes ==
    { Content(1, "jpeg", 1), Content(2, "jpeg", 2), Content(3, "png", 3),
      Content(4, "heic", 1), Content(5, "heic", 3), Content(6, "garbage", 0),
      Content(7, "truncated", 0), Content(8, "mov", 0) }

CompareFiles == { File(n, b) : n \in CompareNames, b \in CompareBytes }

InitFn ==
    /\ photos = <<>>
    /\ fs = <<>>
    /\ report = ZeroReport
    /\ failed_files = <<>>
    /\ run = 1
    /\ idx = 0
    /\ pc = "fn"
    /\ variant = "none"
    /\ path = NoPath
    /\ call = NoCall
    /\ exports = <<>>
    /\ calls = <<>>
    /\ firstReport = ZeroReport
    /\ fnOp = "none" /\ fnArg = NoArg /\ fnRes = NoRes

\* line 261: original_filename = extract_img_pattern(photo.original_filename)
FnExtract ==
    /\ fnOp = "none"
    /\ \E f \in FileNameInputs :
          /\ fnArg' = FnIn(Path(0, f), NoFile, NoFile)
          /\ fnRes' = FnOut(Path(0, extract_img_pattern(f)), FALSE)
    /\ fnOp' = "extract"
    /\ UNCHANGED pipelineVars

\* extract_img_pattern applied to its own result
FnExtractAgain ==
    /\ fnOp = "extract"
    /\ fnArg' = FnIn(fnRes.p, NoFile, NoFile)
    /\ fnRes' = FnOut(Path(0, extract_img_pattern(fnRes.p.name)), FALSE)
    /\ fnOp' = "extract2"
    /\ UNCHANGED pipelineVars

\* line 167: duplicate_path of a target
FnDuplicatePath ==
    /\ fnOp = "none"
    /\ \E p \in TargetInputs :
          /\ fnArg' = FnIn(p, NoFile, NoFile)
          /\ fnRes' = FnOut(duplicate_path(p), FALSE)
    /\ fnOp' = "duplicate_path"
    /\ UNCHANGED pipelineVars

\* lines 163 and 174: file_hashes_match of two files
FnMatch ==
    /\ fnOp = "none"
    /\ \E a \in CompareFiles, b \in CompareFiles :
          /\ fnArg' = FnIn(NoPath, a, b)
          /\ fnRes' = FnOut(NoPath, file_hashes_match(a, b))
    /\ fnOp' = "match"
    /\ UNCHANGED pipelineVars

NextFn ==
    \/ FnExtract
    \/ FnExtractAgain
    \/ FnDuplicatePath
    \/ FnMatch

SpecFn == InitFn /\ [][NextFn]_vars

(***************************************************************************)
(* Claims about the pure functions (checked under SpecFn).                 *)
(***************************************************************************)
\* The name with " (1)" inserted immediately before its final extension.
SuffixedSibling(name) ==
    LET dots == {i \in 2..Len(name) : name[i] = "."}
    IN  IF dots = {} THEN name \o <<" ", "(", "1", ")">>
        ELSE SubSeq(name, 1, Max(dots) - 1) \o <<" ", "(", "1", ")">>
             \o SubSeq(name, Max(dots), Len(name))

\* C7: the sibling path the reconciler computes for a target is the same
\* directory with " (1)" inserted once, immediately before the final
\* extension of the file name, and it differs from the target.
C7_SiblingBeforeFinalExtension ==
    fnOp = "duplicate_path" =>
        /\ fnRes.p.dir = fnArg.p.dir
        /\ fnRes.p.name = SuffixedSibling(fnArg.p.name)
        /\ fnRes.p # fnArg.p

\* The text of a name from its last dot on.
LastDotSuffix(name) ==
    LET dots == {i \in 1..Len(name) : name[i] = "."}
    IN  IF dots = {} THEN <<>> ELSE SubSeq(name, Max(dots), Len(name))

IsJpgOrHeic(name) == Lower(LastDotSuffix(name)) \in {DOT_JPG, DOT_HEIC}

\* name is exactly IMG_ + 4 digits + .jpg/.heic, in any letter case
IsCanonicalName(name) ==
    /\ IsJpgOrHeic(name)
    /\ Len(name) = 8 + Len(LastDotSuffix(name))
    /\ Lower(SubSeq(name, 1, 4)) = <<"i", "m", "g", "_">>
    /\ \A i \in 5..8 : name[i] \in Digits

\* name has IMG_ + 4 digits at position i
ImgAt(name, i) ==
    /\ i + 7 <= Len(name)
    /\ SubSeq(name, i, i + 3) = <<"I", "M", "G", "_">>
    /\ \A k \in 4..7 : name[i + k] \in Digits

CanonicalOf(name) ==
    IF ~IsJpgOrHeic(name) THEN name
    ELSE IF IsCanonicalName(name) THEN name
    ELSE IF \E i \in 1..Len(name) : ImgAt(name, i)
    THEN LET first == CHOOSE i \in 1..Len(name) :
                          ImgAt(name, i) /\ \A j \in 1..(i - 1) : ~ImgAt(name, j)
         IN  SubSeq(name, first, first + 7) \o LastDotSuffix(name)
    ELSE name

\* C8: extract_img_pattern returns the name unchanged when it is not a
\* .jpg/.heic name or is exactly IMG_dddd.jpg/.heic, else the first IMG_dddd
\* of the name followed by the name's extension, else the name unchanged;
\* applied to its own result it returns that result.
C8_Canonicalization ==
    /\ fnOp = "extract" => fnRes.p.name = CanonicalOf(fnArg.p.name)
    /\ fnOp = "extract2" => fnRes.p.name = fnArg.p.name

\* "2024_IMG_5678_extra.jpg" has been canonicalized to "IMG_5678.jpg"
C8_Witness ==
    /\ fnOp = "extract"
    /\ fnArg.p.name = <<"2", "0", "2", "4", "_">> \o IMG_ \o <<"5", "6", "7", "8">>
               \o <<"_", "e", "x", "t", "r", "a">> \o DOT_JPG
    /\ fnRes.p.name = IMG_ \o <<"5", "6", "7", "8">> \o DOT_JPG

\* C9: for two files of identical bytes file_hashes_match returns True on
\* each of its paths, and no decode or processing error leaves it.
C9_IdenticalBytesMatch ==
    fnOp = "match" =>
        /\ fnRes.match \in BOOLEAN
        /\ fnArg.a.bytes = fnArg.b.bytes => fnRes.match = TRUE

\* identical bytes compared after a decode failure on the perceptual path
C9_Witness ==
    /\ fnOp = "match"
    /\ fnArg.a.bytes = fnArg.b.bytes
    /\ Lower(SplitExt(fnArg.a.name)[2]) \in SUPPORTED_IMAGE_FORMATS
    /\ Lower(SplitExt(fnArg.b.name)[2]) \in SUPPORTED_IMAGE_FORMATS
    /\ ~IsError(DecodeByExt(fnArg.a))
    /\ IsError(DecodeByExt(fnArg.b))
    /\ fnRes.match = TRUE

(***************************************************************************)
(* Claims about the pipeline (checked under Spec).                         *)
(***************************************************************************)
Exported(rep) ==
    rep.originals_exported + rep.edits_exported + rep.live_photos_exported

\* The invocations of photo.export / the finished calls of run r.
ExportsOf(r) == {i \in 1..Len(exports) : exports[i].run = r}
CallsOf(r)   == {i \in 1..Len(calls) : calls[i].run = r}

\* C1: a second run over the same library and the tree the first run left
\* invokes photo.export zero times and counts nothing as exported.
C1_SecondRunExportsNothing ==
    run = 2 =>
        /\ ExportsOf(2) = {}
        /\ Exported(report) = 0

C3_NotExistsExports ==
    ((call.done \/ pc = "aborted") /\ call.variant # "none" /\ ~call.existed) =>
        /\ Len(exports) = call.exports0 + 1
        /\ exports[Len(exports)].dir = call.target.dir
        /\ exports[Len(exports)].filename = call.target.name
        /\ report.duplicates_skipped = call.report0.duplicates_skipped
        /\ call.done => call.ret = FALSE

\* a call for a target that did not exist has returned
C3_Witness ==
    /\ call.done /\ ~call.existed
    /\ call.variant = "edited"
    /\ call.ret = FALSE
    /\ Len(exports) = call.exports0 + 1

\* Photo i of the current run has been dealt with by export_photos.
PhotoFinished(i) == i < idx \/ (i = idx /\ pc \in {"loop", "report"})

Called(r, i, v) ==
    \E k \in 1..Len(calls) : calls[k].run = r /\ calls[k].idx = i /\ calls[k].variant = v

ExportedFor(r, i, v) ==
    \E k \in 1..Len(exports) :
        exports[k].run = r /\ exports[k].idx = i /\ exports[k].variant = v

OriginalDuplicate(r, i) ==
    \E k \in 1..Len(calls) :
        calls[k].run = r /\ calls[k].idx = i /\ calls[k].variant = "original" /\ calls[k].ret

\* C4: for a photo whose Original was reported a duplicate neither the Edited
\* nor the Live variant is attempted or exported in this run; otherwise the
\* Edited variant is attempted exactly when the photo has adjustments and the
\* Live variant exactly when it is a live photo, whatever the Edited variant's
\* outcome.
C4_OriginalGatesSiblings ==
    \A i \in 1..Len(photos) :
        (PhotoFinished(i) /\ pc # "aborted") =>
            /\ Called(run, i, "original")
            /\ OriginalDuplicate(run, i) =>
                  /\ ~Called(run, i, "edited") /\ ~Called(run, i, "live")
                  /\ ~ExportedFor(run, i, "edited") /\ ~ExportedFor(run, i, "live")
            /\ ~OriginalDuplicate(run, i) =>
                  /\ Called(run, i, "edited") <=> photos[i].hasadjustments
                  /\ Called(run, i, "live") <=> photos[i].live_photo

\* a photo with adjustments and a live clip whose Original was a duplicate
C4_Witness ==
    \E i \in 1..Len(photos) :
        /\ PhotoFinished(i)
        /\ photos[i].hasadjustments /\ photos[i].live_photo
        /\ OriginalDuplicate(run, i)

\* the Live variant was attempted after the Edited variant was a duplicate
C4_WitnessEditedDuplicate ==
    \E i \in 1..Len(photos) :
        /\ PhotoFinished(i)
        /\ Called(run, i, "live")
        /\ \E k \in 1..Len(calls) :
              calls[k].run = run /\ calls[k].idx = i
              /\ calls[k].variant = "edited" /\ calls[k].ret

\* A call that found its target and returned False has been through the
\* timestamp loop of lines 190-204.
LoopFinished == call.done /\ call.existed /\ call.ret = FALSE

CaptureDate == photos[call.idx].date

\* No file's modification time was set by the call.
NoTimeSet ==
    /\ \A p \in DOMAIN call.fs0 : fs[p] = call.fs0[p]
    /\ \A p \in DOMAIN fs \ DOMAIN call.fs0 : fs[p].mtime = WrittenNow

OneFailureAppended ==
    /\ Len(failed_files) = call.failed0 + 1
    /\ failed_files[Len(failed_files)].path = call.output
    /\ failed_files[Len(failed_files)].date = CaptureDate

\* C5 as stated: a file first visible at check k <= 5 costs exactly k checks,
\* gets the capture date and leaves no failure entry; a file absent at all 5
\* checks costs 5 checks, gets no date and leaves exactly one failure entry
\* with the path and the capture date.
C5_RetryLaw ==
    LoopFinished =>
        /\ call.checks \in 1..5
        /\ call.misses < 5 =>
              /\ call.checks = call.misses + 1
              /\ fs[call.output].mtime = Timestamp(CaptureDate)
              /\ Len(failed_files) = call.failed0
        /\ call.misses >= 5 =>
              /\ call.checks = 5
              /\ NoTimeSet
              /\ OneFailureAppended

\* C5 as amended: the same, except that when os.utime itself fails at the
\* check that finds the file, no date is set and one failure entry with the
\* path and the capture date is appended (after exactly k checks).
C5_RetryLawUnlessUtimeFails ==
    LoopFinished =>
        /\ call.checks \in 1..5
        /\ (call.misses < 5 /\ call.synced) =>
              /\ call.checks = call.misses + 1
              /\ fs[call.output].mtime = Timestamp(CaptureDate)
              /\ Len(failed_files) = call.failed0
        /\ (call.misses < 5 /\ ~call.synced) =>
              /\ call.checks = call.misses + 1
              /\ NoTimeSet
              /\ OneFailureAppended
        /\ call.misses >= 5 =>
              /\ call.checks = 5
              /\ NoTimeSet
              /\ OneFailureAppended

\* the file became visible at the third check and got the capture date
C5_Witness ==
    /\ LoopFinished
    /\ call.misses = 2 /\ call.checks = 3
    /\ call.synced
    /\ fs[call.output].mtime = Timestamp(CaptureDate)

\* the file was absent at all five checks
C5_WitnessGiveUp ==
    /\ LoopFinished
    /\ call.misses = 5
    /\ OneFailureAppended

\* How far the program has come: the run, the photo, the variant, the
\* position in the call.  Bounded for a finite list.
VariantRank(v) ==
    IF v = "original" THEN 1 ELSE IF v = "edited" THEN 2 ELSE IF v = "live" THEN 3 ELSE 4

Position ==
    IF pc = "sync" THEN 1 + call.checks
    ELSE IF pc = "report" THEN 1
    ELSE IF pc = "aborted" THEN 7
    ELSE 0

Progress ==
    ((run * (Len(photos) + 1) + idx) * 5 + VariantRank(variant)) * 8 + Position

\* The greatest value of Progress for the list at hand.
ProgressBound ==
    ((2 * (Len(photos) + 1) + Len(photos)) * 5 + 4) * 8 + 7

\* The program has a next step: the loop has a next photo or is over, a
\* call takes one of its branches, the timestamp loop checks once more.
CanStep ==
    \/ pc = "loop" /\ (idx < Len(photos) \/ idx = Len(photos))
    \/ /\ pc = "call"
       /\ \/ ~TargetExists
          \/ TargetExists /\ TargetMatches
          \/ TargetExists /\ ~TargetMatches /\ SiblingPreExists /\ SiblingMatches
          \/ TargetExists /\ ~TargetMatches /\ SiblingPreExists /\ ~SiblingMatches
          \/ TargetExists /\ ~TargetMatches /\ ~SiblingPreExists
    \/ /\ pc = "sync"
       /\ \/ CheckSucceeds
          \/ CheckFails /\ call.checks + 1 < Attempts
          \/ CheckFails /\ call.checks + 1 >= Attempts

\* The run stops only at the final report, with every photo of the list
\* processed, or because photo.export raised.
StopsOnlyAtReport ==
    /\ Progress \in 0..ProgressBound
    /\ pc \notin {"report", "aborted"} => CanStep
    /\ pc = "report" =>
          /\ idx = Len(photos)
          /\ \A i \in 1..Len(photos) : Called(run, i, "original")
    /\ pc = "aborted" =>
          /\ exports # <<>>
          /\ ~exports[Len(exports)].ok

\* C6: every run, whatever the comparisons and the timestamp operations do,
\* processes every photo and reaches the final report, unless photo.export
\* raises: every step brings the program forward by a bounded measure, and
\* it stops nowhere but at the report or at a raising photo.export.
C6_RunReachesReport ==
    /\ []StopsOnlyAtReport
    /\ [][Progress' > Progress]_vars

\* a run reached the report although timestamps failed
C6_Witness ==
    /\ pc = "report"
    /\ Len(failed_files) >= 2
    /\ report.duplicates_skipped >= 1

\* The call found its target, the source does not match it, and the sibling
\* of line 167 was there before the call and does not match either.
UnresolvedMismatch ==
    LET src == photo_path(photos[call.idx], call.variant)
    IN  /\ call.existed
        /\ ~file_hashes_match(src, FileAt(call.fs0, call.target))
        /\ duplicate_path(call.target) \in DOMAIN call.fs0
        /\ ~file_hashes_match(src, FileAt(call.fs0, duplicate_path(call.target)))

\* C10: in that case the call ends without invoking photo.export and without
\* incrementing any of the five counters.
C10_UnresolvedMismatchCountsNothing ==
    (call.done /\ UnresolvedMismatch) =>
        /\ Len(exports) = call.exports0
        /\ report = call.report0

(***************************************************************************)
(* Claims about single calls of export_photo_variant (checked under Spec). *)
(***************************************************************************)
\* The collision-suffixed sibling of a path: " (1)" before the final extension.
SiblingOf(p) == Path(p.dir, SuffixedSibling(p.name))

\* The source the last call compared: photo.path_edited for the Edited
\* variant, photo.path otherwise.
Source == photo_path(photos[call.idx], call.variant)

\* The target existed, and the source matched it or matched the sibling
\* that was there before the call.
DuplicateCondition ==
    /\ call.existed
    /\ \/ file_hashes_match(Source, FileAt(call.fs0, call.target))
       \/ /\ SiblingOf(call.target) \in DOMAIN call.fs0
          /\ file_hashes_match(Source, FileAt(call.fs0, SiblingOf(call.target)))

\* C11: a call returns True exactly when the target exists and the source
\* matches it or matches the sibling that pre-existed; then duplicates_skipped
\* grew by one, photo.export was not invoked, and the other counters, the
\* failure list and every destination file are as the call found them.
C11_DuplicateExactlyWhen ==
    call.done =>
        /\ call.ret = DuplicateCondition
        /\ call.ret =>
              /\ report = CountSkipped(call.report0)
              /\ Len(exports) = call.exports0
              /\ Len(failed_files) = call.failed0
              /\ fs = call.fs0

\* The last call found its target, the source does not match it, and the
\* sibling was not there before the call.
CollisionCase ==
    /\ call.variant # "none"
    /\ call.existed
    /\ ~file_hashes_match(Source, FileAt(call.fs0, call.target))
    /\ SiblingOf(call.target) \notin DOMAIN call.fs0

\* The call is past its photo.export: in the timestamp loop, or returned.
PastExport == pc = "sync" \/ call.done

\* os.path.exists finds the sibling after the export.
SiblingCreated == SiblingOf(call.target) \in DOMAIN fs /\ call.seen

\* C12: when the target exists, the source does not match it and the sibling
\* was not there, photo.export is invoked exactly once at the target; if the
\* sibling exists afterwards duplicates_created grows by one and the
\* timestamp code (and any failure entry) works on the sibling, otherwise
\* duplicates_created is unchanged and it works on the target; in both cases
\* exactly the exported counter of the variant's kind grows by one.
C12_CollisionExport ==
    (CollisionCase /\ PastExport) =>
        LET afterCheck == IF SiblingCreated THEN CountCreated(call.report0)
                          ELSE call.report0
        IN  /\ Len(exports) = call.exports0 + 1
            /\ exports[Len(exports)].dir = call.target.dir
            /\ exports[Len(exports)].filename = call.target.name
            /\ call.output = IF SiblingCreated THEN SiblingOf(call.target) ELSE call.target
            /\ ~call.done => report = afterCheck
            /\ call.done => report = CountExported(afterCheck, call.variant)
            /\ Len(failed_files) > call.failed0 =>
                  failed_files[Len(failed_files)].path = call.output
            /\ (call.done /\ call.synced) =>
                  fs[call.output].mtime = Timestamp(photos[call.idx].date)

\* The last call exported to a target that did not exist, and has returned.
NotExistsDone == call.done /\ ~call.existed

\* C13: after an export to a target that did not exist the timestamp code
\* retries as in the other branch: a file that shows up within 5 checks gets
\* the capture date and leaves no failure entry, and a failure entry for a
\* file that was not visible is recorded only after 5 failed checks.
C13_NotExistsRetries ==
    NotExistsDone =>
        /\ call.synced =>
              /\ fs[call.output].mtime = Timestamp(photos[call.idx].date)
              /\ Len(failed_files) = call.failed0
        /\ (call.misses > 0 /\ Len(failed_files) > call.failed0) =>
              call.misses = Attempts

\* The three exported counters.
ExportedCounters(rep) ==
    <<rep.originals_exported, rep.edits_exported, rep.live_photos_exported>>

\* The last call appended an entry to failed_files.
FailureAppended == call.variant # "none" /\ Len(failed_files) > call.failed0

\* A call appends at most one failure entry, and one that did has returned
\* with exactly the exported counter of its kind grown by one and the run
\* going on with the next variant or photo.
FailureCountsAsExported ==
    /\ call.variant # "none" => Len(failed_files) <= call.failed0 + 1
    /\ FailureAppended =>
          /\ call.done
          /\ ExportedCounters(report) =
                ExportedCounters(CountExported(call.report0, call.variant))
          /\ pc \in {"loop", "call"}
          /\ CanStep

\* C14: a variant whose processing appends a failure entry is counted as
\* exported all the same: exactly the counter of its kind grows by one, no
\* later step of the run takes that back, the run goes on, and a call appends
\* at most one entry.
C14_FailureKeepsExportCount ==
    /\ []FailureCountsAsExported
    /\ [][run' = run =>
            \A i \in 1..3 : ExportedCounters(report')[i] >= ExportedCounters(report)[i]]_vars

\* a live variant was counted although its file never became visible
C14_Witness ==
    /\ FailureAppended
    /\ call.variant = "live"
    /\ call.misses = Attempts
    /\ report.live_photos_exported = call.report0.live_photos_exported + 1

\* photo.export has raised in this run.
ExportRaised == \E k \in 1..Len(exports) : exports[k].run = run /\ ~exports[k].ok

\* C15: an error raised by photo.export is fatal to its photo only: the run
\* goes on with the next photo and reaches the final report.
C15_ExportErrorSkipsPhoto ==
    ExportRaised => (pc = "report" \/ CanStep)

\* C16: in every run photo.export is invoked at most once for a photo and a
\* variant kind, whatever the tree holds and however the timestamp code ends.
C16_OneExportPerVariant ==
    \A j, k \in 1..Len(exports) :
        (/\ exports[j].run = exports[k].run
         /\ exports[j].idx = exports[k].idx
         /\ exports[j].variant = exports[k].variant) => j = k

\* a call exported once and gave up on the timestamp after five checks
C16_Witness ==
    /\ call.done
    /\ call.wrote # NoPath
    /\ call.misses = Attempts
    /\ FailureAppended
    /\ Len(exports) = call.exports0 + 1

\* s is an initial part of t.
IsPrefix(s, t) == Len(s) <= Len(t) /\ SubSeq(t, 1, Len(s)) = s

\* C17: within a run no counter of the report decreases and failed_files
\* only grows at its end; nothing resets them before the final report.
C17_CountersAndFailuresGrow ==
    [][run' = run =>
         /\ report'.originals_exported >= report.originals_exported
         /\ report'.edits_exported >= report.edits_exported
         /\ report'.live_photos_exported >= report.live_photos_exported
         /\ report'.duplicates_skipped >= report.duplicates_skipped
         /\ report'.duplicates_created >= report.duplicates_created
         /\ IsPrefix(failed_files, failed_files')]_vars

\* a variant has been counted after a skip and a failure of the same run
C17_Witness ==
    /\ call.done
    /\ call.report0.duplicates_skipped >= 1
    /\ call.failed0 >= 1
    /\ Exported(report) > Exported(call.report0)

\* The invocations of photo.export of the current run for variant kind v.
ExportsOfKind(v) ==
    Cardinality({k \in 1..Len(exports) : exports[k].run = run /\ exports[k].variant = v})

\* C18: between variants each exported counter is the number of invocations
\* of photo.export made so far in the run for variants of its kind.
C18_ExportedCountsExports ==
    pc \in {"loop", "call", "report"} =>
        /\ report.originals_exported = ExportsOfKind("original")
        /\ report.edits_exported = ExportsOfKind("edited")
        /\ report.live_photos_exported = ExportsOfKind("live")

\* C19: a call changes the modification time of no file that was in the
\* destination tree before it (only of the file its own export wrote).
C19_OnlyExportedFileTouched ==
    call.variant # "none" =>
        \A p \in DOMAIN call.fs0 :
            /\ p \in DOMAIN fs
            /\ fs[p].mtime = call.fs0[p].mtime

====
